---- MODULE Spec2Model ----
(***************************************************************************)
(* Healthify backend: the Vertex AI food-analysis service                  *)
(* (services/vertexAIGenAIService.js), its response normaliser             *)
(* extractJsonFromResponse, its fallback builder                           *)
(* createErrorFallbackResponse, and the service-account credential         *)
(* resolver (utils/vercelServiceAccountHelper.js).                         *)
(*                                                                         *)
(* Strings are sequences of tokens.  A token stands for a fixed run of     *)
(* characters; the regular expression, JSON.parse, String.replace and the  *)
(* base64 decoder are computed on the token sequences.                     *)
(***************************************************************************)
EXTENDS Integers, Sequences, FiniteSets, TLC

VARIABLES
    responseText,    \* extractor harness: the argument of extractJsonFromResponse
    extractLog,      \* extractor harness: outcomes of the calls made so far
    env,             \* resolver: process.env and the config directory
    credKind,        \* resolver: which credential family is asked for
    credLog,         \* resolver: outcomes of the resolve calls made so far
    moduleLoaded,    \* service: has the module body run
    service,         \* service: which build of the service module the process loads
    generativeModel, \* service: the module-level client handle
    calls            \* service: the public calls in flight or completed

vars == <<responseText, extractLog, env, credKind, credLog,
          service, moduleLoaded, generativeModel, calls>>

extractVars == <<responseText, extractLog>>
credVars    == <<env, credKind, credLog>>
svcVars     == <<service, moduleLoaded, generativeModel, calls>>

(***************************************************************************)
(* Bounds                                                                  *)
(***************************************************************************)
MaxParts   == 4   \* chunks concatenated into one response text
MaxRepeat  == 2   \* calls of extractJsonFromResponse on one text

(***************************************************************************)
(* Generic helpers                                                         *)
(***************************************************************************)
RECURSIVE Flatten(_)
Flatten(ss) == IF ss = <<>> THEN <<>> ELSE Head(ss) \o Flatten(Tail(ss))

SeqsUpTo(S, n) == UNION { [1..k -> S] : k \in 0..n }

Slice(s, a, b) == IF a > b THEN <<>> ELSE SubSeq(s, a, b)

(***************************************************************************)
(* Response texts.  Tokens:                                                *)
(*   "FENCEjson" a three-backtick fence followed by json                   *)
(*   "FENCE"     a three-backtick fence                                     *)
(*   "{" "}"    braces                  "a:1"  the member "a":1            *)
(*   "k:"       the key prefix "k":     "ws"   a whitespace character      *)
(*   "x"        any other character of prose                               *)
(***************************************************************************)
FenceOpen  == "FENCEjson"
Fence      == "FENCE"
Whitespace == "ws"

Chunks ==
    { <<FenceOpen>>, <<Fence>>, <<Whitespace>>, <<"x">>, <<"{">>, <<"}">>,
      <<"{", "}">>, <<"{", "a:1", "}">>, <<"k:">>, <<"{", "k:", "{", "}", "}">> }

Texts == { Flatten(cs) : cs \in SeqsUpTo(Chunks, MaxParts) }

\* A JS value that is either a string or undefined.
Str(s)    == [defined |-> TRUE, s |-> s]
Undefined == [defined |-> FALSE, s |-> <<>>]

(***************************************************************************)
(* JSON.parse on a token sequence holding at most an object.  The grammar  *)
(* the tokens allow: object ::= "{" [ "a:1" | "k:" object ] "}", with      *)
(* whitespace allowed between tokens.  The value is the canonical          *)
(* (whitespace-free) text of the object.                                   *)
(***************************************************************************)
RECURSIVE StripWs(_)
StripWs(s) ==
    IF s = <<>> THEN <<>>
    ELSE IF Head(s) = Whitespace THEN StripWs(Tail(s))
    ELSE <<Head(s)>> \o StripWs(Tail(s))

RECURSIVE ObjEnd(_, _)
\* index of the "}" that closes the object opening at s[i]; 0 when there is none
ObjEnd(s, i) ==
    IF i > Len(s) \/ s[i] # "{" THEN 0
    ELSE IF i + 1 <= Len(s) /\ s[i + 1] = "}" THEN i + 1
    ELSE IF i + 2 <= Len(s) /\ s[i + 1] = "a:1" /\ s[i + 2] = "}" THEN i + 2
    ELSE IF i + 1 <= Len(s) /\ s[i + 1] = "k:"
         THEN LET e == ObjEnd(s, i + 2)
              IN  IF e # 0 /\ e + 1 <= Len(s) /\ s[e + 1] = "}" THEN e + 1 ELSE 0
    ELSE 0

Returned(v) == [kind |-> "return", isNull |-> FALSE, value |-> v, error |-> "none"]
Null        == [kind |-> "return", isNull |-> TRUE, value |-> <<>>, error |-> "none"]
Thrown(m)   == [kind |-> "throw", isNull |-> FALSE, value |-> <<>>, error |-> m]

JSONParse(s) ==
    LET t == StripWs(s)
    IN  IF t # <<>> /\ ObjEnd(t, 1) = Len(t) THEN Returned(t) ELSE Thrown("SyntaxError")

(***************************************************************************)
(* responseText.match(pattern): the pattern is the alternation of a        *)
(* fenced form (opening fence, whitespace, a lazily matched braces span,    *)
(* whitespace, a fence) and a bare form (a greedily matched braces span).   *)
(* The engine tries each start position from the left and, at a position,  *)
(* the fenced alternative before the bare one.                             *)
(***************************************************************************)
RECURSIVE SkipWs(_, _)
\* the position after the longest run of whitespace starting at i
SkipWs(s, i) == IF i <= Len(s) /\ s[i] = Whitespace THEN SkipWs(s, i + 1) ELSE i

\* a fence matches a bare fence and the first three characters of an opening fence
IsFenceAt(s, i) == i <= Len(s) /\ s[i] \in {Fence, FenceOpen}

\* the fenced alternative at i: <<first, last>> of group 1, or <<0, 0>>
FencedAt(s, i) ==
    IF s[i] # FenceOpen THEN <<0, 0>>
    ELSE LET b == SkipWs(s, i + 1)
             ends == { e \in (b + 1)..Len(s) :
                          s[e] = "}" /\ IsFenceAt(s, SkipWs(s, e + 1)) }
         IN  IF b <= Len(s) /\ s[b] = "{" /\ ends # {}
             THEN <<b, CHOOSE e \in ends : \A f \in ends : e <= f>>   \* lazy
             ELSE <<0, 0>>

\* the bare alternative at i: <<first, last>> of group 2, or <<0, 0>>
BareAt(s, i) ==
    LET ends == { e \in (i + 1)..Len(s) : s[e] = "}" }
    IN  IF s[i] = "{" /\ ends # {}
        THEN <<i, CHOOSE e \in ends : \A f \in ends : e >= f>>        \* greedy
        ELSE <<0, 0>>

MatchAt(s, i) == IF FencedAt(s, i) # <<0, 0>> THEN FencedAt(s, i) ELSE BareAt(s, i)

\* jsonMatch[1] || jsonMatch[2], as <<first, last>>; <<0, 0>> when match() is null
RegexMatch(s) ==
    LET starts == { i \in 1..Len(s) : MatchAt(s, i) # <<0, 0>> }
    IN  IF starts = {} THEN <<0, 0>>
        ELSE MatchAt(s, CHOOSE i \in starts : \A j \in starts : i <= j)

\* extractJsonFromResponse without the try/catch around JSON.parse
extractJsonUnguarded(t) ==
    IF ~t.defined \/ t.s = <<>> THEN Null
    ELSE LET m == RegexMatch(t.s)
         IN  IF m # <<0, 0>> THEN JSONParse(Slice(t.s, m[1], m[2])) ELSE Null

\* extractJsonFromResponse whose pattern tries the bare alternative first
extractJsonBareFirst(t) ==
    IF ~t.defined \/ t.s = <<>> THEN Null
    ELSE LET starts == { i \in 1..Len(t.s) : BareAt(t.s, i) # <<0, 0>> }
             m == IF starts = {} THEN <<0, 0>>
                  ELSE BareAt(t.s, CHOOSE i \in starts : \A j \in starts : i <= j)
             r == IF m # <<0, 0>> THEN JSONParse(Slice(t.s, m[1], m[2])) ELSE Null
         IN  IF r.kind = "throw" THEN Null ELSE r

extractJsonFromResponse(t) ==
    IF ~t.defined \/ t.s = <<>> THEN Null
    ELSE LET m == RegexMatch(t.s)
         IN  IF m # <<0, 0>>
             THEN LET r == JSONParse(Slice(t.s, m[1], m[2]))
                  IN  IF r.kind = "throw" THEN Null ELSE r
             ELSE Null

(***************************************************************************)
(* Service-account keys.  Tokens of the JSON text of a key:                *)
(*   "{" "}"  braces            "Q"  the run "private_key":" up to and     *)
(*   "E"  a double quote             including the opening quote           *)
(*   "BS" a backslash           "n"  the letter n                          *)
(*   "LF" a line feed (0x0A)    "null"  the JSON literal null              *)
(*   any other token is an ordinary character of the key.                  *)
(* Characters of a parsed private_key: "NL" a real line break, "BSL" a     *)
(* backslash, "QUOTE" a double quote, and the ordinary characters.         *)
(***************************************************************************)
MaxKeyLen  == 3   \* characters between the quotes of a raw private_key
MaxResolve == 1   \* calls of the resolver on one environment

KeyChars == {"p", "BS", "n", "LF"}

RECURSIVE SkipLF(_, _)
SkipLF(s, i) == IF i <= Len(s) /\ s[i] = "LF" THEN SkipLF(s, i + 1) ELSE i

RECURSIVE StringEnd(_, _)
\* index of the quote that ends the JSON string whose first character is s[i];
\* 0 when the string is unterminated or holds a raw control character or a bad escape
StringEnd(s, i) ==
    IF i > Len(s) THEN 0
    ELSE IF s[i] = "E" THEN i
    ELSE IF s[i] \in {"LF", "Q"} THEN 0
    ELSE IF s[i] = "BS"
         THEN IF i + 1 <= Len(s) /\ s[i + 1] \in {"n", "BS", "E"}
              THEN StringEnd(s, i + 2) ELSE 0
    ELSE StringEnd(s, i + 1)

RECURSIVE Unescape(_)
\* the characters a JSON string body denotes
Unescape(b) ==
    IF b = <<>> THEN <<>>
    ELSE IF Head(b) = "BS"
         THEN <<CASE b[2] = "n" -> "NL" [] b[2] = "BS" -> "BSL" [] OTHER -> "QUOTE">>
              \o Unescape(Tail(Tail(b)))
    ELSE <<Head(b)>> \o Unescape(Tail(b))

\* JSON.parse of the text of a key: the object's private_key, null, or a SyntaxError
JSONParseKey(s) ==
    LET a == SkipLF(s, 1)
    IN  IF a <= Len(s) /\ s[a] = "null" /\ SkipLF(s, a + 1) = Len(s) + 1 THEN Null
        ELSE IF a > Len(s) \/ s[a] # "{" THEN Thrown("SyntaxError")
        ELSE LET q == SkipLF(s, a + 1)
             IN  IF q > Len(s) \/ s[q] # "Q" THEN Thrown("SyntaxError")
                 ELSE LET e == StringEnd(s, q + 1)
                          c == SkipLF(s, e + 1)
                      IN  IF e # 0 /\ c <= Len(s) /\ s[c] = "}"
                             /\ SkipLF(s, c + 1) = Len(s) + 1
                          THEN Returned(Unescape(Slice(s, q + 1, e - 1)))
                          ELSE Thrown("SyntaxError")

RECURSIVE ReplaceEscapedNewlines(_)
\* key.replace(/\\n/g, '\n'): every backslash followed by n becomes a line feed
ReplaceEscapedNewlines(s) ==
    IF Len(s) < 2 THEN s
    ELSE IF s[1] = "BS" /\ s[2] = "n"
         THEN <<"LF">> \o ReplaceEscapedNewlines(Tail(Tail(s)))
    ELSE <<s[1]>> \o ReplaceEscapedNewlines(Tail(s))

RECURSIVE EscapeRawNewlines(_)
\* key.replace(/\n/g, "\\n"): every line feed becomes a backslash followed by n
EscapeRawNewlines(s) ==
    IF s = <<>> THEN <<>>
    ELSE IF Head(s) = "LF" THEN <<"BS", "n">> \o EscapeRawNewlines(Tail(s))
    ELSE <<Head(s)>> \o EscapeRawNewlines(Tail(s))

(***************************************************************************)
(* Buffer.from(text, 'base64').toString('utf-8').  A base64 symbol stands  *)
(* for the encoding of one token; "=" ends the data; any other symbol is   *)
(* no base64 character and is skipped.  The decoder never throws.          *)
(***************************************************************************)
B64Table ==
    { <<"ew", "{">>, <<"fQ", "}">>, <<"InByaXZhdGVfa2V5Ijoi", "Q">>, <<"Ig", "E">>,
      <<"XA", "BS">>, <<"bg", "n">>, <<"Cg", "LF">>, <<"bnVsbA", "null">>,
      <<"cA", "p">>, <<"cQ", "q">>, <<"cg", "r">>, <<"eg", "z">> }

B64Symbol(tok) == (CHOOSE e \in B64Table : e[2] = tok)[1]

RECURSIVE B64Encode(_)
B64Encode(s) == IF s = <<>> THEN <<>> ELSE <<B64Symbol(Head(s))>> \o B64Encode(Tail(s))

RECURSIVE B64Decode(_)
B64Decode(b) ==
    IF b = <<>> \/ Head(b) = "=" THEN <<>>
    ELSE IF \E e \in B64Table : e[1] = Head(b)
         THEN <<(CHOOSE e \in B64Table : e[1] = Head(b))[2]>> \o B64Decode(Tail(b))
    ELSE B64Decode(Tail(b))

(***************************************************************************)
(* The resolver (vercelServiceAccountHelper.js, lines 49-159).             *)
(* An outcome is a returned value (with the source it came from) or a      *)
(* thrown Error.                                                           *)
(***************************************************************************)
From(src, r) == [kind |-> r.kind, isNull |-> r.isNull, value |-> r.value,
                 error |-> r.error, source |-> src]

parseServiceAccountKey(key) ==
    IF ~key.defined \/ key.s = <<>> THEN Null
    ELSE LET correctedKey == ReplaceEscapedNewlines(key.s)
             r == JSONParseKey(correctedKey)
         IN  IF r.kind = "throw" THEN Null ELSE r

\* the three steps shared by getVertexServiceAccount and getFirebaseServiceAccount
Resolve(b64, raw, file, notFound) ==
    LET decodedKey == B64Decode(b64.s)
        d == JSONParseKey(decodedKey)
        parsedKey == parseServiceAccountKey(raw)
        f == JSONParseKey(file.s)           \* require(serviceAccountPath)
    IN  IF b64.defined /\ b64.s # <<>> /\ d.kind = "return" THEN From("b64", d)
        ELSE IF raw.defined /\ raw.s # <<>> /\ ~parsedKey.isNull THEN From("raw", parsedKey)
        ELSE IF file.exists /\ f.kind = "return" THEN From("file", f)
        ELSE From("none", Thrown(notFound))

getVertexServiceAccount(e) ==
    Resolve(e.VERTEX_SERVICE_ACCOUNT_KEY_B64, e.VERTEX_SERVICE_ACCOUNT_KEY,
            e.vertexFile, "Vertex AI service account credentials not found or invalid")

getFirebaseServiceAccount(e) ==
    Resolve(e.FIREBASE_SERVICE_ACCOUNT_KEY_B64, e.FIREBASE_SERVICE_ACCOUNT_KEY,
            e.firebaseFile, "Firebase service account credentials not found or invalid")

(***************************************************************************)
(* The service modules.  Two builds of the service are in the repository:  *)
(* "genai" (the build that resolves the service account itself) and        *)
(* "fileAuth" (services/vertexAIGenAIService.js, application default       *)
(* credentials).  A process loads one of them.                             *)
(***************************************************************************)
MaxClock == 2     \* readings of new Date() that can be told apart

Services == {"genai", "fileAuth"}
Callers  == {"c1", "c2"}
Clock    == 1..MaxClock

\* healthConditions as the caller passes it: a list, null, or omitted
HCList(l)   == [tag |-> "list", list |-> l]
HCNull      == [tag |-> "null", list |-> <<>>]
HCOmitted   == [tag |-> "undefined", list |-> <<>>]
HCValues    == {HCOmitted, HCList(<<"diabetes">>), HCNull}

\* a default parameter value replaces undefined only
DefaultHC(h) == IF h.tag = "undefined" THEN HCList(<<>>) ELSE h

Ops == {"analyzeFoodImage", "analyzeFoodByName", "generateHealthyRecipe"}

\* the first argument: imageFile, foodName, ingredients
ArgsOf(op) ==
    CASE op = "analyzeFoodImage"      -> {"photo.jpg", "undefined"}
      [] op = "analyzeFoodByName"     -> {"banana", "apple"}
      [] op = "generateHealthyRecipe" -> {"rice,beans", "undefined"}

\* a thrown or constructed value: an Error with a message, or undefined
Err(m)   == [truthy |-> TRUE, message |-> m]
NoError  == [truthy |-> FALSE, message |-> ""]

\* a JS object returned to the caller.  meta.keys are the keys analysisMetadata has.
NoMeta == [keys |-> {}, timestamp |-> 0, model |-> "", status |-> "",
           errorMessage |-> "", healthConditionsConsidered |-> HCOmitted]

Record(foodName, data, hasMeta, meta) ==
    [kind |-> "return", foodName |-> foodName, data |-> data,
     hasMeta |-> hasMeta, analysisMetadata |-> meta, error |-> ""]

Raise(e) ==
    [kind |-> "throw", foodName |-> "", data |-> <<>>,
     hasMeta |-> FALSE, analysisMetadata |-> NoMeta, error |-> e.message]

NoResult == [kind |-> "none", foodName |-> "", data |-> <<>>,
             hasMeta |-> FALSE, analysisMetadata |-> NoMeta, error |-> ""]

\* createErrorFallbackResponse of the genai build
createErrorFallbackResponse(error, healthConditions, now) ==
    Record("Analysis Failed", <<>>, TRUE,
           [keys |-> {"timestamp", "model", "status", "errorMessage",
                      "healthConditionsConsidered"},
            timestamp |-> now,
            model |-> "gemini-2.0-flash-001",
            status |-> "error",
            errorMessage |-> IF error.truthy THEN error.message ELSE "Unknown error",
            healthConditionsConsidered |-> DefaultHC(healthConditions)])

\* createErrorFallbackResponse of the fileAuth build
createErrorFallbackResponseFileAuth(error) ==
    Record("Analysis Failed", <<>>, TRUE,
           [keys |-> {"status", "errorMessage"},
            timestamp |-> 0,
            model |-> "",
            status |-> "error",
            errorMessage |-> IF error.truthy THEN error.message ELSE "Unknown error",
            healthConditionsConsidered |-> HCOmitted])

Fallback(svc, error, healthConditions, now) ==
    IF svc = "genai" THEN createErrorFallbackResponse(error, healthConditions, now)
    ELSE createErrorFallbackResponseFileAuth(error)

NotInitializedMessage(svc, op) ==
    CASE svc = "genai" -> "Google GenAI service not initialized"
      [] svc = "fileAuth" /\ op = "analyzeFoodImage" ->
             "Vertex AI service not initialized. Check server logs."
      [] OTHER -> "Vertex AI service not initialized."

ParseFailedMessage == "Failed to parse JSON response from AI."

\* if (!generativeModel)
NotInitializedAlwaysFalse(gm) == FALSE
NotInitialized(gm) == gm = "unset"

\* what a remote generateContent call does
Rejected(e)    == [kind |-> "reject", error |-> e, text |-> Undefined]
NoCandidates   == [kind |-> "noCandidates", error |-> NoError, text |-> Undefined]
WithText(t)    == [kind |-> "text", error |-> NoError, text |-> t]
NoResponse     == [kind |-> "none", error |-> NoError, text |-> Undefined]

ResponseTexts ==
    { Undefined, Str(<<>>), Str(<<"x">>), Str(<<"{", "a:1">>), Str(<<"{", "a:1", "}">>),
      Str(<<"x", FenceOpen, Whitespace, "{", "}", Whitespace, Fence>>) }

Responses ==
    { Rejected(Err("503 Service Unavailable")), Rejected(NoError), NoCandidates }
    \cup { WithText(t) : t \in ResponseTexts }

\* the statements of the try block before the await: the TypeError they throw, if any
\* (only the genai build reads healthConditions.length in analyzeFoodByName)
BeforeAwait(svc, gm, op, arg, hc) ==
    IF op = "analyzeFoodImage" /\ arg = "undefined"
    THEN Err("Cannot read properties of undefined (reading 'buffer')")
    ELSE IF svc = "genai" /\ op = "analyzeFoodByName" /\ hc.tag = "null"
    THEN Err("Cannot read properties of null (reading 'length')")
    ELSE IF op = "generateHealthyRecipe" /\ arg = "undefined"
    THEN Err("Cannot read properties of undefined (reading 'join')")
    ELSE IF gm = "unset"
    THEN Err("Cannot read properties of undefined (reading 'generateContent')")
    ELSE NoError

\* the healthConditions each catch block hands to createErrorFallbackResponse
CatchHC(svc, op, hc) ==
    IF svc = "genai" /\ op = "analyzeFoodImage" THEN hc ELSE HCOmitted

\* generateContent calls a call makes on its way to the await: the await line is
\* reached, and the one call made, when no earlier statement of the try block throws
RequestsBeforeAwait(thrown) == IF thrown.truthy THEN 0 ELSE 1

\* generateContent calls made again after the await when the first one was
\* rejected or its text could not be extracted
RetryAfterFailure(resp) ==
    IF resp.kind = "reject" \/ extractJsonFromResponse(resp.text).isNull THEN 1 ELSE 0
\* generateContent calls a call makes after its await: the statements after the
\* await and the catch block hold no call of generateContent and no loop
RequestsAfterAwait(resp) == 0

\* a catch block that rethrows
CatchRethrow(svc, op, hc, error, now) == Raise(error)
\* catch (error) { return createErrorFallbackResponse(error ...) }
Catch(svc, op, hc, error, now) == Fallback(svc, error, CatchHC(svc, op, hc), now)

\* the statements after the await, given what the remote call did
AfterAwait(svc, op, hc, resp, now) ==
    CASE resp.kind = "reject" -> Catch(svc, op, hc, resp.error, now)
      [] resp.kind = "noCandidates" ->
             Catch(svc, op, hc, Err("Cannot read properties of undefined (reading '0')"), now)
      [] OTHER ->
             LET parsedData == extractJsonFromResponse(resp.text)
             IN  IF parsedData.isNull
                 THEN Fallback(svc, Err(ParseFailedMessage), HCOmitted, now)
                 ELSE IF svc = "genai" /\ op = "analyzeFoodImage"
                      THEN Record("", parsedData.value, TRUE,
                                  [NoMeta EXCEPT !.keys = {"timestamp", "model"},
                                                 !.timestamp = now,
                                                 !.model = "gemini-2.0-flash-001"])
                      ELSE Record("", parsedData.value, FALSE, NoMeta)

\* which way a completed call went; overlapped records that another call was in
\* flight when this one resumed
PathAfterAwait(resp) ==
    CASE resp.kind \in {"reject", "noCandidates"} -> "threw"
      [] extractJsonFromResponse(resp.text).isNull -> "extractNull"
      [] OTHER -> "success"

IdleCall ==
    [pc |-> "idle", op |-> "analyzeFoodByName", arg |-> "banana", hc |-> HCOmitted,
     requests |-> 0, resp |-> NoResponse, path |-> "none", overlapped |-> FALSE,
     result |-> NoResult]

(***************************************************************************)
(* Environments                                                            *)
(***************************************************************************)
NoFile  == [exists |-> FALSE, s |-> <<>>]
File(s) == [exists |-> TRUE, s |-> s]

Key(body) == <<"{", "Q">> \o body \o <<"E", "}">>

RawValues ==
    { Undefined, Str(<<>>), Str(<<"null">>), Str(<<"{", "Q", "p">>),
      Str(<<"{", "BS", "n", "Q", "p", "E", "}">>),
      Str(<<"{", "LF", "Q", "p", "BS", "n", "E", "}">>) }
    \cup { Str(Key(b)) : b \in SeqsUpTo(KeyChars, MaxKeyLen) }

B64Values ==
    { Undefined,
      Str(B64Encode(Key(<<"q", "BS", "n", "q">>))),
      Str(<<"!">> \o B64Encode(Key(<<"q", "BS", "n", "q">>))),
      Str(<<"!", "!">>),
      Str(B64Encode(<<"{", "Q", "q">>)),
      Str(B64Encode(<<"null">>)) }

FileValues ==
    { NoFile,
      File(<<"{", "LF", "Q", "r", "BS", "n", "r", "E", "LF", "}", "LF">>),
      File(<<"{", "Q", "r">>) }

Kinds == {"vertex", "firebase"}

\* process.env and the config directory, the sources of `kind` being b64, raw and
\* file and those of the other kind holding a key of their own
EnvOf(kind, b64, raw, file) ==
    LET other == Str(Key(<<"z", "BS", "n", "z">>))
    IN  [VERTEX_SERVICE_ACCOUNT_KEY_B64   |-> IF kind = "vertex" THEN b64 ELSE Undefined,
         VERTEX_SERVICE_ACCOUNT_KEY       |-> IF kind = "vertex" THEN raw ELSE other,
         vertexFile                       |-> IF kind = "vertex" THEN file ELSE NoFile,
         FIREBASE_SERVICE_ACCOUNT_KEY_B64 |-> IF kind = "firebase" THEN b64 ELSE Undefined,
         FIREBASE_SERVICE_ACCOUNT_KEY     |-> IF kind = "firebase" THEN raw ELSE other,
         firebaseFile                     |-> IF kind = "firebase" THEN file ELSE NoFile]

EmptyEnv == EnvOf("vertex", Undefined, Undefined, NoFile)

B64Of(e, kind) == IF kind = "vertex" THEN e.VERTEX_SERVICE_ACCOUNT_KEY_B64
                  ELSE e.FIREBASE_SERVICE_ACCOUNT_KEY_B64
RawOf(e, kind) == IF kind = "vertex" THEN e.VERTEX_SERVICE_ACCOUNT_KEY
                  ELSE e.FIREBASE_SERVICE_ACCOUNT_KEY
FileOf(e, kind) == IF kind = "vertex" THEN e.vertexFile ELSE e.firebaseFile

\* the environments a service process is started in
StartEnvs ==
    { EmptyEnv,
      EnvOf("vertex", Str(B64Encode(Key(<<"q", "BS", "n", "q">>))), Undefined, NoFile),
      EnvOf("vertex", Str(B64Encode(<<"null">>)), Undefined, NoFile),
      EnvOf("vertex", Undefined, Str(Key(<<"p", "BS", "n", "p">>)), NoFile),
      EnvOf("vertex", Undefined, Undefined,
            File(<<"{", "LF", "Q", "r", "BS", "n", "r", "E", "LF", "}", "LF">>)) }

(***************************************************************************)
(* Quiescent values of the parts a specification does not exercise         *)
(***************************************************************************)
ExtractQuiet == responseText = Undefined /\ extractLog = <<>>
CredQuiet    == env = EmptyEnv /\ credKind = "vertex" /\ credLog = <<>>
SvcQuiet     == /\ service = "genai"
                /\ moduleLoaded = FALSE
                /\ generativeModel = "unset"
                /\ calls = [c \in Callers |-> IdleCall]

(***************************************************************************)
(* The extractor on its own: a text, and extractJsonFromResponse applied   *)
(* to it, repeatedly.                                                      *)
(***************************************************************************)
InitExtract ==
    /\ responseText \in {Undefined} \cup { Str(t) : t \in Texts }
    /\ extractLog = <<>>
    /\ CredQuiet
    /\ SvcQuiet

ExtractCall ==
    /\ Len(extractLog) < MaxRepeat
    /\ extractLog' = Append(extractLog, extractJsonFromResponse(responseText))
    /\ UNCHANGED <<responseText, credVars, svcVars>>

NextExtract == ExtractCall

SpecExtract == InitExtract /\ [][NextExtract]_vars

(***************************************************************************)
(* The resolver on its own: an environment, and the getter of one kind     *)
(* called in it.  The resolver reads the environment and writes nothing.   *)
(***************************************************************************)
InitCred ==
    /\ credKind \in Kinds
    /\ \E b64 \in B64Values, raw \in RawValues, file \in FileValues :
           env = EnvOf(credKind, b64, raw, file)
    /\ credLog = <<>>
    /\ ExtractQuiet
    /\ SvcQuiet

ResolveCall ==
    /\ Len(credLog) < MaxResolve
    /\ credLog' = Append(credLog, IF credKind = "vertex"
                                  THEN getVertexServiceAccount(env)
                                  ELSE getFirebaseServiceAccount(env))
    /\ UNCHANGED <<env, credKind, extractVars, svcVars>>

NextCred == ResolveCall

SpecCred == InitCred /\ [][NextCred]_vars

(***************************************************************************)
(* The service: the module body runs once, then callers call the three     *)
(* public operations; each call runs to its await, the remote call         *)
(* settles, and the call runs to its return.                               *)
(***************************************************************************)
Init ==
    /\ service \in Services
    /\ moduleLoaded = FALSE
    /\ generativeModel = "unset"
    /\ calls = [c \in Callers |-> IdleCall]
    /\ ExtractQuiet
    /\ CredQuiet

\* the module body: resolve the service account (genai build), construct the client
LoadModule ==
    /\ ~moduleLoaded
    /\ moduleLoaded' = TRUE
    /\ \E e \in StartEnvs, constructorThrows \in BOOLEAN :
           LET serviceAccount == getVertexServiceAccount(e)
               resolved == service = "fileAuth"
                           \/ (serviceAccount.kind = "return" /\ ~serviceAccount.isNull)
           IN  generativeModel' = IF resolved /\ ~constructorThrows THEN "set" ELSE "unset"
    /\ UNCHANGED <<service, calls, extractVars, credVars>>

\* a call from its entry to its first await, or to its return when it does not get there
Begin(c) ==
    /\ moduleLoaded
    /\ calls[c].pc = "idle"
    /\ \E op \in Ops, hc \in HCValues, now \in Clock :
         \E arg \in ArgsOf(op) :
           LET thrown == BeforeAwait(service, generativeModel, op, arg, hc)
               frame == [IdleCall EXCEPT !.op = op, !.arg = arg, !.hc = hc]
           IN  calls' = [calls EXCEPT ![c] =
                 IF NotInitialized(generativeModel)
                 THEN [frame EXCEPT !.pc = "done", !.path = "notInitialized",
                          !.result = Fallback(service,
                                         Err(NotInitializedMessage(service, op)),
                                         HCOmitted, now)]
                 ELSE IF thrown.truthy
                 THEN [frame EXCEPT !.pc = "done", !.path = "threw",
                          !.requests = RequestsBeforeAwait(thrown),
                          !.result = Catch(service, op, hc, thrown, now)]
                 ELSE [frame EXCEPT !.pc = "awaiting",
                          !.requests = RequestsBeforeAwait(thrown)]]
    /\ UNCHANGED <<service, moduleLoaded, generativeModel, extractVars, credVars>>

\* the frame a continuation runs in: the call's own parameters and locals
FrameOfOther(c) ==
    IF \E d \in Callers \ {c} : calls[d].pc = "awaiting"
    THEN calls[CHOOSE d \in Callers \ {c} : calls[d].pc = "awaiting"]
    ELSE calls[c]
FrameOf(c) == calls[c]

\* the remote call settles and the call runs from its await to its return
Resume(c) ==
    /\ calls[c].pc = "awaiting"
    /\ \E resp \in Responses, now \in Clock :
           calls' = [calls EXCEPT ![c] =
               [@ EXCEPT !.pc = "done", !.resp = resp, !.path = PathAfterAwait(resp),
                         !.requests = @ + RequestsAfterAwait(resp),
                         !.overlapped = \E d \in Callers \ {c} : calls[d].pc = "awaiting",
                         !.result = AfterAwait(service, FrameOf(c).op, FrameOf(c).hc,
                                               resp, now)]]
    /\ UNCHANGED <<service, moduleLoaded, generativeModel, extractVars, credVars>>

\* the caller takes the result; the slot is free for the caller's next call
Deliver(c) ==
    /\ calls[c].pc = "done"
    /\ calls' = [calls EXCEPT ![c] = IdleCall]
    /\ UNCHANGED <<service, moduleLoaded, generativeModel, extractVars, credVars>>

Next ==
    \/ LoadModule
    \/ \E c \in Callers : Begin(c)
    \/ \E c \in Callers : Resume(c)
    \/ \E c \in Callers : Deliver(c)

Spec == Init /\ [][Next]_vars

(***************************************************************************)
(* Properties of the service, stated for Spec                              *)
(***************************************************************************)
Done(c) == calls[c].pc = "done"

\* C1: every completed call of analyzeFoodImage, analyzeFoodByName or
\* generateHealthyRecipe has returned a record, whatever the initialization outcome,
\* the arguments and the remote call did; no call ends by throwing, and a call
\* that waits for the remote call completes as soon as the remote call settles.
C1_NeverRaises ==
    \A c \in Callers :
        /\ Done(c) => calls[c].result.kind = "return"
        /\ calls[c].pc = "awaiting" => ENABLED Resume(c)

\* a call whose remote response had no candidates (a TypeError inside the try
\* block) and a call whose remote call was rejected have both returned records
C1_Witness ==
    /\ Done("c1") /\ calls["c1"].resp.kind = "noCandidates"
    /\ calls["c1"].result.kind = "return"
    /\ Done("c2") /\ calls["c2"].resp.kind = "reject"
    /\ calls["c2"].result.kind = "return"

\* C2: every record a public operation returns, on the success path and on every
\* fallback path, has an analysisMetadata with at least timestamp, model and status.
C2_MetadataAlways ==
    \A c \in Callers :
        Done(c) /\ calls[c].result.kind = "return" =>
            /\ calls[c].result.hasMeta
            /\ {"timestamp", "model", "status"} \subseteq calls[c].result.analysisMetadata.keys

Degraded == moduleLoaded /\ generativeModel = "unset"

NotInitializedRecord(c) ==
    /\ calls[c].path = "notInitialized"
    /\ calls[c].result.kind = "return"
    /\ calls[c].result.foodName = "Analysis Failed"
    /\ calls[c].result.analysisMetadata.status = "error"
    /\ calls[c].result.analysisMetadata.errorMessage
           = NotInitializedMessage(service, calls[c].op)

\* C3: once the module body has failed to set the client handle, the handle stays
\* unset (nothing initializes it again), no call reaches generateContent, and every
\* call that completes has returned the 'not initialized' fallback record.
C3_DegradedForever ==
    /\ [](Degraded => \A c \in Callers :
              /\ calls[c].pc # "awaiting"
              /\ calls[c].requests = 0
              /\ Done(c) => NotInitializedRecord(c))
    /\ [][Degraded => Degraded']_vars

\* the handle is unset and both callers have had a call answered
C3_Witness ==
    /\ Degraded
    /\ Done("c1") /\ NotInitializedRecord("c1")
    /\ Done("c2") /\ NotInitializedRecord("c2") /\ calls["c2"].op # calls["c1"].op

\* C8: a record returned on a fallback path (handle unset, an exception inside the
\* try block, or a null extraction) has foodName "Analysis Failed", status "error",
\* the error message, and the health conditions that the caller supplied.
C8_FallbackCarriesConditions ==
    \A c \in Callers :
        Done(c) /\ calls[c].path # "success" /\ calls[c].hc.tag = "list" =>
            /\ calls[c].result.foodName = "Analysis Failed"
            /\ calls[c].result.analysisMetadata.status = "error"
            /\ calls[c].result.analysisMetadata.errorMessage # ""
            /\ "healthConditionsConsidered" \in calls[c].result.analysisMetadata.keys
            /\ calls[c].result.analysisMetadata.healthConditionsConsidered = calls[c].hc

\* what analyzeFoodByName returns for health conditions hc when the remote call
\* does resp and the clock reads now
ByNameOutcome(hc, resp, path, now) ==
    LET fallback(m) ==
            IF service = "genai"
            THEN createErrorFallbackResponse(Err(m), HCOmitted, now)
            ELSE createErrorFallbackResponseFileAuth(Err(m))
    IN  CASE path = "notInitialized" ->
                 fallback(NotInitializedMessage(service, "analyzeFoodByName"))
          [] path = "threw" /\ resp.kind = "none" ->
                 fallback("Cannot read properties of null (reading 'length')")
          [] path = "threw" /\ resp.kind = "reject" ->
                 fallback(IF resp.error.truthy THEN resp.error.message ELSE "Unknown error")
          [] path = "threw" /\ resp.kind = "noCandidates" ->
                 fallback("Cannot read properties of undefined (reading '0')")
          [] path = "extractNull" -> fallback(ParseFailedMessage)
          [] OTHER -> Record("", extractJsonFromResponse(resp.text).value, FALSE, NoMeta)

\* C9: a completed analyzeFoodByName call has returned what its own health
\* conditions, its own remote response and its own clock reading determine, also
\* when another call was in flight; a step of one call leaves the other call's
\* frame alone, and after the module body has run no step writes the client handle.
C9_IndependentCalls ==
    /\ [](\A c \in Callers :
              Done(c) /\ calls[c].op = "analyzeFoodByName" =>
                  calls[c].result = ByNameOutcome(calls[c].hc, calls[c].resp, calls[c].path,
                                        calls[c].result.analysisMetadata.timestamp))
    /\ [][/\ moduleLoaded => generativeModel' = generativeModel
          /\ \A c, d \in Callers : c # d /\ calls'[c] # calls[c] => calls'[d] = calls[d]]_vars

\* two analyzeFoodByName calls with different inputs have completed, the first of
\* them resumed while the other was in flight, and they returned different results
C9_Witness ==
    /\ Done("c1") /\ Done("c2")
    /\ calls["c1"].op = "analyzeFoodByName" /\ calls["c2"].op = "analyzeFoodByName"
    /\ calls["c1"].arg # calls["c2"].arg
    /\ calls["c1"].overlapped
    /\ calls["c1"].path = "success" /\ calls["c2"].path = "threw"
    /\ calls["c1"].result # calls["c2"].result

(***************************************************************************)
(* Properties of the extractor, stated for SpecExtract                     *)
(***************************************************************************)
Count(s, tok) == Cardinality({ i \in 1..Len(s) : s[i] = tok })

\* the fenced blocks of a text: <<i, j>> with an opening fence at i, a fence at j
\* and a JSON object, alone but for whitespace, between them
FencedBlocks(s) ==
    { ij \in (1..Len(s)) \X (1..Len(s)) :
          /\ ij[1] < ij[2]
          /\ s[ij[1]] = FenceOpen
          /\ s[ij[2]] \in {Fence, FenceOpen}
          /\ JSONParse(Slice(s, ij[1] + 1, ij[2] - 1)).kind = "return" }

\* the JSON objects of a text that start outside the fenced block ij
BareObjects(s, ij) ==
    { ab \in (1..Len(s)) \X (1..Len(s)) :
          /\ ab[1] < ab[2]
          /\ ab[2] < ij[1] \/ ab[1] > ij[2]
          /\ s[ab[1]] = "{" /\ s[ab[2]] = "}"
          /\ JSONParse(Slice(s, ab[1], ab[2])).kind = "return" }

FencedBody(s, ij) == JSONParse(Slice(s, ij[1] + 1, ij[2] - 1))

\* C6 as claimed: when a fenced json block and a bare object both occur in the
\* text, in either order, extractJsonFromResponse returns the body of the fenced
\* block.
C6_FencedWinsEitherOrder ==
    \A n \in 1..Len(extractLog) :
        \A ij \in FencedBlocks(responseText.s) :
            BareObjects(responseText.s, ij) # {} =>
                extractLog[n] = FencedBody(responseText.s, ij)

\* C6 as amended: when a fenced json block occurs in the text and no "{" precedes
\* its opening fence, extractJsonFromResponse returns the body of the fenced
\* block, whether or not a bare object follows the block.
C6_FencedWinsWhenFirst ==
    \A n \in 1..Len(extractLog) :
        \A ij \in FencedBlocks(responseText.s) :
            (\A i \in 1..(ij[1] - 1) : responseText.s[i] # "{") =>
                extractLog[n] = FencedBody(responseText.s, ij)

\* a fenced block is followed by a bare object with another value, and the
\* extractor has returned the fenced body
C6_Witness ==
    /\ extractLog # <<>>
    /\ \E ij \in FencedBlocks(responseText.s) :
          /\ \E ab \in BareObjects(responseText.s, ij) :
                 /\ ab[1] > ij[2]
                 /\ JSONParse(Slice(responseText.s, ab[1], ab[2]))
                        # FencedBody(responseText.s, ij)
          /\ extractLog[1] = FencedBody(responseText.s, ij)

\* the span the pattern matches is unbalanced or is no JSON
MatchedNotJson(s) ==
    LET m == RegexMatch(s)
        span == Slice(s, m[1], m[2])
    IN  /\ m # <<0, 0>>
        /\ \/ Count(span, "{") # Count(span, "}")
           \/ JSONParse(span).kind = "throw"

\* C7: extractJsonFromResponse never throws on a string (or absent) argument; it
\* returns null for an absent or empty text, for a text with no "{", and for a
\* text whose matched span is unbalanced or no valid JSON; a second call on the
\* same text returns the same.
C7_NullNeverThrows ==
    \A n \in 1..Len(extractLog) :
        /\ extractLog[n].kind = "return"
        /\ ( \/ ~responseText.defined
             \/ responseText.s = <<>>
             \/ Count(responseText.s, "{") = 0
             \/ MatchedNotJson(responseText.s) ) => extractLog[n].isNull
        /\ extractLog[n] = extractLog[1]

\* two calls on a text whose matched span is unbalanced have both returned null
C7_Witness ==
    /\ Len(extractLog) = 2
    /\ responseText.defined
    /\ MatchedNotJson(responseText.s)
    /\ Count(responseText.s, "{") > Count(responseText.s, "}")
    /\ extractLog[1].isNull /\ extractLog[2].isNull

(***************************************************************************)
(* Properties of the resolver, stated for SpecCred                         *)
(***************************************************************************)
HasLineBreak(pk) == \E i \in 1..Len(pk) : pk[i] = "NL"
HasEscapedN(pk)  == \E i \in 1..(Len(pk) - 1) : pk[i] = "BSL" /\ pk[i + 1] = "n"

IsKey(r) == r.kind = "return" /\ ~r.isNull

Present(v) == v.defined /\ v.s # <<>>

NotFoundMessage(kind) ==
    IF kind = "vertex" THEN "Vertex AI service account credentials not found or invalid"
    ELSE "Firebase service account credentials not found or invalid"

\* what each source holds for the kind asked for
B64Yields  == Present(B64Of(env, credKind))
              /\ JSONParseKey(B64Decode(B64Of(env, credKind).s)).kind = "return"
RawYields  == Present(RawOf(env, credKind))
              /\ \/ IsKey(JSONParseKey(RawOf(env, credKind).s))
                 \/ IsKey(JSONParseKey(ReplaceEscapedNewlines(RawOf(env, credKind).s)))
FileYields == FileOf(env, credKind).exists
              /\ JSONParseKey(FileOf(env, credKind).s).kind = "return"

\* C4: the resolver returns the key of the first of base64 variable, raw variable
\* and file that holds one (the raw variable holding one when it is JSON, as it
\* stands or once its escaped newlines are replaced); a source that holds none is
\* passed over without an exception; the not-found error is thrown only when no
\* source holds a key.
C4_FirstSuccessWins ==
    \A n \in 1..Len(credLog) :
        LET o == credLog[n]
        IN  /\ o.kind = "throw" => o.error = NotFoundMessage(credKind)
            /\ o.kind = "throw" <=> ~(B64Yields \/ RawYields \/ FileYields)
            /\ B64Yields => o.source = "b64"
            /\ ~B64Yields /\ RawYields => o.source = "raw" /\ IsKey(o)
            /\ ~B64Yields /\ ~RawYields /\ FileYields => o.source = "file"

\* a source is well-formed when it holds the JSON text of a key whose private_key
\* has line breaks
WellFormedKeyText(s) ==
    LET r == JSONParseKey(s)
    IN  IsKey(r) /\ HasLineBreak(r.value) /\ ~HasEscapedN(r.value)

OnlyB64 ==
    /\ Present(B64Of(env, credKind))
    /\ \A i \in 1..Len(B64Of(env, credKind).s) :
           \E e \in B64Table : e[1] = B64Of(env, credKind).s[i]
    /\ WellFormedKeyText(B64Decode(B64Of(env, credKind).s))
    /\ ~RawOf(env, credKind).defined /\ ~FileOf(env, credKind).exists

OnlyRaw ==
    /\ Present(RawOf(env, credKind)) /\ WellFormedKeyText(RawOf(env, credKind).s)
    /\ ~B64Of(env, credKind).defined /\ ~FileOf(env, credKind).exists

OnlyFile ==
    /\ FileOf(env, credKind).exists /\ WellFormedKeyText(FileOf(env, credKind).s)
    /\ ~B64Of(env, credKind).defined /\ ~RawOf(env, credKind).defined

\* C5: when exactly one of the three sources is present and well-formed, the
\* resolver returns a key whose private_key has real line breaks and no escaped
\* backslash-n.
C5_RealLineBreaks ==
    \A n \in 1..Len(credLog) :
        OnlyB64 \/ OnlyRaw \/ OnlyFile =>
            /\ IsKey(credLog[n])
            /\ HasLineBreak(credLog[n].value)
            /\ ~HasEscapedN(credLog[n].value)

\* C10: when the base64 variable yields no key and the raw variable is present, the
\* resolver returns the raw value parsed after replacing escaped newlines; failing
\* that, the raw value parsed after escaping raw newlines; it goes on to the file
\* only when both parses fail.
C10_TwoStrategies ==
    \A n \in 1..Len(credLog) :
        LET raw == RawOf(env, credKind)
            first == JSONParseKey(ReplaceEscapedNewlines(raw.s))
            second == JSONParseKey(EscapeRawNewlines(raw.s))
        IN  ~B64Yields /\ Present(raw) =>
                IF IsKey(first) THEN credLog[n] = From("raw", first)
                ELSE IF IsKey(second) THEN credLog[n] = From("raw", second)
                ELSE credLog[n].source \in {"file", "none"}

(***************************************************************************)
(* Remote calls per public call, stated for Spec                           *)
(***************************************************************************)
\* the arguments are of the declared types: a file, a name or a list of
\* ingredients, and health conditions that are a list or omitted
WellTyped(c) == calls[c].arg # "undefined" /\ calls[c].hc.tag # "null"

\* C11 as claimed: with the client handle set, every completed call of a public
\* operation has issued exactly one generateContent call.
C11_ExactlyOneRequest ==
    \A c \in Callers :
        generativeModel = "set" /\ Done(c) => calls[c].requests = 1

\* C11 as amended: with the client handle set, a call of a public operation issues
\* at most one generateContent call, whatever the remote call returns or raises
\* (no retry after a rejection, no second call after a failed extraction), and
\* exactly one when its arguments are of the declared types; a call whose try block
\* throws before the await issues none.
C11_AtMostOneRequest ==
    \A c \in Callers :
        generativeModel = "set" =>
            /\ calls[c].requests <= 1
            /\ calls[c].pc = "awaiting" => calls[c].requests = 1
            /\ Done(c) /\ WellTyped(c) => calls[c].requests = 1
            /\ Done(c) /\ calls[c].resp.kind # "none" => calls[c].requests = 1
            /\ Done(c) /\ calls[c].resp.kind = "none" => calls[c].requests = 0

\* one call has ended after its remote call was rejected, another after a text
\* with no JSON in it, and each has issued one generateContent call
C11_Witness ==
    /\ generativeModel = "set"
    /\ Done("c1") /\ calls["c1"].resp.kind = "reject" /\ calls["c1"].requests = 1
    /\ Done("c2") /\ calls["c2"].path = "extractNull" /\ calls["c2"].requests = 1

====
